---- MODULE Spec2Model ----
(***************************************************************************)
(* Model of fibonacci.c: the fast-doubling engine fast_fib_calc, executed  *)
(* step by step with its OpenMP parallel sections, and (further down) the  *)
(* command-line front end main / print_fib_info.                           *)
(***************************************************************************)
EXTENDS Integers, Sequences, FiniteSets

VARIABLES
    N0,         \* the index fast_fib_calc was called with by the driver
    threshold,  \* the value N is compared with in the `if` clause of line 70
    frames,     \* the activations of fast_fib_calc, outermost first
    FIB_N,      \* the caller's first cell  (A of the outermost activation)
    FIB_N1,     \* the caller's second cell (B of the outermost activation)
    acc,        \* cells read / written by each section in the current region
    depth,      \* deepest nesting of activations seen so far
    mixed,      \* some section stepped while the other one was under way
    cli         \* the state of main: its locals, its position, what it printed

calcVars == <<N0, threshold, frames, FIB_N, FIB_N1, acc, depth, mixed>>

vars == <<calcVars, cli>>

(* ------------------------------ bounds --------------------------------- *)
\* Largest index the driver passes; F(MaxN + 2) still fits a TLC integer.
MaxN == 40
\* The threshold "forced low": every level with N >= ForcedLow is split.
ForcedLow == 1
\* Values the caller's cells may hold before the call.
InitVals == {0, 7}

(* --------------------------- fast_fib_calc ----------------------------- *)
\* line 70: #pragma omp parallel sections if (N >= 50000000)
OMP_IF_THRESHOLD == 50000000

\* lines 59-63: a fresh activation on index n; mpz_init sets each local to 0
NewFrame(n) ==
    [N |-> n, pc |-> "entry", F0 |-> 0, F1 |-> 0, TEMP |-> 0, F0_Q |-> 0,
     s1 |-> 0, s2 |-> 0]

\* The recursive call handing the same object for both results
Loc_aliased(d, name) ==
    CASE name = "A" -> IF d = 1 THEN <<0, "FIB_N">> ELSE <<d - 1, "F0">>
      [] name = "B" -> IF d = 1 THEN <<0, "FIB_N">> ELSE <<d - 1, "F0">>
      [] OTHER      -> <<d, name>>

\* The parameters A and B of activation d are the caller's objects: F0 and F1
\* of activation d-1 (line 66), or FIB_N and FIB_N1 for the outermost call.
Loc(d, name) ==
    CASE name = "A" -> IF d = 1 THEN <<0, "FIB_N">>  ELSE <<d - 1, "F0">>
      [] name = "B" -> IF d = 1 THEN <<0, "FIB_N1">> ELSE <<d - 1, "F1">>
      [] OTHER      -> <<d, name>>

Mem == [frames |-> frames, FIB_N |-> FIB_N, FIB_N1 |-> FIB_N1]

Load(m, loc) ==
    IF loc[1] = 0
    THEN (IF loc[2] = "FIB_N" THEN m.FIB_N ELSE m.FIB_N1)
    ELSE m.frames[loc[1]][loc[2]]

Store(m, loc, v) ==
    IF loc[1] = 0
    THEN (IF loc[2] = "FIB_N" THEN [m EXCEPT !.FIB_N = v]
                              ELSE [m EXCEPT !.FIB_N1 = v])
    ELSE [m EXCEPT !.frames[loc[1]][loc[2]] = v]

\* The first section adding F0 where it subtracts it
Section1_addForSub ==
    << [op |-> "mul_2exp", dst |-> "TEMP", a |-> "F1",   b |-> "F1"],
       [op |-> "add",      dst |-> "TEMP", a |-> "TEMP", b |-> "F0"],
       [op |-> "mul",      dst |-> "A",    a |-> "F0",   b |-> "TEMP"] >>

\* The second section using TEMP, the first section's scratch cell, for F0*F0
Section2_sharedTemp ==
    << [op |-> "mul", dst |-> "B",    a |-> "F1", b |-> "F1"],
       [op |-> "mul", dst |-> "TEMP", a |-> "F0", b |-> "F0"],
       [op |-> "add", dst |-> "B",    a |-> "B",  b |-> "TEMP"] >>

\* The GMP calls of the two sections, as (operation, destination, operands).
\* lines 72-80
Section1 ==
    << [op |-> "mul_2exp", dst |-> "TEMP", a |-> "F1",   b |-> "F1"],
       [op |-> "sub",      dst |-> "TEMP", a |-> "TEMP", b |-> "F0"],
       [op |-> "mul",      dst |-> "A",    a |-> "F0",   b |-> "TEMP"] >>

\* lines 81-89
Section2 ==
    << [op |-> "mul", dst |-> "B",    a |-> "F1", b |-> "F1"],
       [op |-> "mul", dst |-> "F0_Q", a |-> "F0", b |-> "F0"],
       [op |-> "add", dst |-> "B",    a |-> "B",  b |-> "F0_Q"] >>

\* mpz_mul_2exp(r, x, 1), mpz_sub, mpz_mul, mpz_add: exact integer arithmetic
Apply(op, x, y) ==
    CASE op = "mul_2exp" -> x * 2
      [] op = "sub"      -> x - y
      [] op = "mul"      -> x * y
      [] op = "add"      -> x + y

Reads(i) == IF i.op = "mul_2exp" THEN {i.a} ELSE {i.a, i.b}

\* One GMP call of activation d on memory m
Exec(m, d, i) ==
    Store(m, Loc(d, i.dst), Apply(i.op, Load(m, Loc(d, i.a)), Load(m, Loc(d, i.b))))

Top == Len(frames)

SetMem(m) ==
    /\ frames' = m.frames
    /\ FIB_N' = m.FIB_N
    /\ FIB_N1' = m.FIB_N1

Max(a, b) == IF a >= b THEN a ELSE b

NoAcc == [r1 |-> {}, w1 |-> {}, r2 |-> {}, w2 |-> {}]

\* line 214: unsigned long TARGET = 20000000
DEFAULT_TARGET == 20000000

\* lines 41, 206-216: main before its argument loop, called with the
\* arguments args (argv[1] .. argv[argc-1]); pc "off" when main is not run
MainEntry(args, at) ==
    [argv |-> args, I |-> 1, TARGET |-> DEFAULT_TARGET, SAVE_TO_FILE |-> 0,
     RETURN_FLAG |-> 0, pc |-> at, out |-> <<>>, file |-> <<>>,
     fopen |-> "none", calcCalls |-> 0, printCalls |-> 0]

Init ==
    /\ N0 \in 0..MaxN
    /\ threshold \in {ForcedLow, OMP_IF_THRESHOLD}
    /\ FIB_N \in InitVals
    /\ FIB_N1 \in InitVals
    /\ frames = <<NewFrame(N0)>>
    /\ acc = NoAcc
    /\ depth = 1
    /\ mixed = FALSE
    /\ cli = MainEntry(<<>>, "off")

\* The activation that resumes when its callee returns (after line 66)
Resume(fs) ==
    IF Len(fs) = 0 THEN fs
    ELSE [fs EXCEPT ![Len(fs)].pc = "sections"]

\* lines 51-56: N == 0, set (A, B) = (0, 1) and return
BaseCase ==
    /\ Top >= 1
    /\ frames[Top].pc = "entry"
    /\ frames[Top].N = 0
    /\ LET m1 == Store(Mem, Loc(Top, "A"), 0)
           m2 == Store(m1, Loc(Top, "B"), 1)
       IN  SetMem([m2 EXCEPT !.frames = Resume(SubSeq(m2.frames, 1, Top - 1))])
    /\ UNCHANGED <<cli, N0, threshold, acc, depth, mixed>>

\* Descending by one instead of halving
Half_minusOne(n) == n - 1

\* line 66: the index handed to the recursive call, N / 2
Half(n) == n \div 2

\* lines 59-66: initialise the locals and call fast_fib_calc(N / 2, F0, F1)
Recurse ==
    /\ Top >= 1
    /\ frames[Top].pc = "entry"
    /\ frames[Top].N # 0
    /\ frames' = Append([frames EXCEPT ![Top].pc = "called"],
                        NewFrame(Half(frames[Top].N)))
    /\ depth' = Max(depth, Top + 1)
    /\ UNCHANGED <<cli, N0, threshold, FIB_N, FIB_N1, acc, mixed>>

\* line 70: the region runs on a team of threads only if N >= threshold
Parallel(f) == f.N >= threshold

\* A section may take its next step: freely when the region is parallel;
\* when it is not, one thread runs the sections one after the other, so a
\* section steps only while the other one has not started or has finished.
MayStep(f, other) == Parallel(f) \/ other \in {0, 3}

\* lines 72-80: the next GMP call of the first section
Sec1Step ==
    /\ Top >= 1
    /\ frames[Top].pc = "sections"
    /\ frames[Top].s1 < 3
    /\ MayStep(frames[Top], frames[Top].s2)
    /\ LET i == Section1[frames[Top].s1 + 1]
           m == Exec(Mem, Top, i)
       IN  /\ SetMem([m EXCEPT !.frames[Top].s1 = frames[Top].s1 + 1])
           /\ acc' = [acc EXCEPT
                        !.r1 = @ \cup {Loc(Top, x) : x \in Reads(i)},
                        !.w1 = @ \cup {Loc(Top, i.dst)}]
    /\ mixed' = (mixed \/ frames[Top].s2 \in {1, 2})
    /\ UNCHANGED <<cli, N0, threshold, depth>>

\* lines 81-89: the next GMP call of the second section
Sec2Step ==
    /\ Top >= 1
    /\ frames[Top].pc = "sections"
    /\ frames[Top].s2 < 3
    /\ MayStep(frames[Top], frames[Top].s1)
    /\ LET i == Section2[frames[Top].s2 + 1]
           m == Exec(Mem, Top, i)
       IN  /\ SetMem([m EXCEPT !.frames[Top].s2 = frames[Top].s2 + 1])
           /\ acc' = [acc EXCEPT
                        !.r2 = @ \cup {Loc(Top, x) : x \in Reads(i)},
                        !.w2 = @ \cup {Loc(Top, i.dst)}]
    /\ mixed' = (mixed \/ frames[Top].s1 \in {1, 2})
    /\ UNCHANGED <<cli, N0, threshold, depth>>

\* A barrier that waits for the first section only
JoinReady_firstOnly(f) == f.s1 = 3

\* line 90: the implicit barrier that ends the parallel sections region
JoinReady(f) == f.s1 = 3 /\ f.s2 = 3

Join ==
    /\ Top >= 1
    /\ frames[Top].pc = "sections"
    /\ JoinReady(frames[Top])
    /\ frames' = [frames EXCEPT ![Top].pc = "parity"]
    /\ acc' = NoAcc
    /\ UNCHANGED <<cli, N0, threshold, FIB_N, FIB_N1, depth, mixed>>

\* line 93: if (N % 2 != 0)
IsOdd(n) == n % 2 # 0

\* lines 93-95: on an odd N, mpz_swap(A, B)
Swap ==
    /\ Top >= 1
    /\ frames[Top].pc = "parity"
    /\ IsOdd(frames[Top].N)
    /\ LET a  == Load(Mem, Loc(Top, "A"))
           b  == Load(Mem, Loc(Top, "B"))
           m1 == Store(Mem, Loc(Top, "A"), b)
           m2 == Store(m1, Loc(Top, "B"), a)
       IN  SetMem([m2 EXCEPT !.frames[Top].pc = "add"])
    /\ UNCHANGED <<cli, N0, threshold, acc, depth, mixed>>

\* The addition done on the swapped A alone
AddInstr_doubleA == [op |-> "add", dst |-> "B", a |-> "A", b |-> "A"]

\* line 96: mpz_add(B, B, A)
AddInstr == [op |-> "add", dst |-> "B", a |-> "B", b |-> "A"]

Add ==
    /\ Top >= 1
    /\ frames[Top].pc = "add"
    /\ LET m == Exec(Mem, Top, AddInstr)
       IN  SetMem([m EXCEPT !.frames[Top].pc = "clear"])
    /\ UNCHANGED <<cli, N0, threshold, acc, depth, mixed>>

\* line 93, N even: the candidates are returned as they are
Even ==
    /\ Top >= 1
    /\ frames[Top].pc = "parity"
    /\ ~IsOdd(frames[Top].N)
    /\ frames' = [frames EXCEPT ![Top].pc = "clear"]
    /\ UNCHANGED <<cli, N0, threshold, FIB_N, FIB_N1, acc, depth, mixed>>

\* lines 100-104: clear the locals and return to the caller
Return ==
    /\ Top >= 1
    /\ frames[Top].pc = "clear"
    /\ frames' = Resume(SubSeq(frames, 1, Top - 1))
    /\ UNCHANGED <<cli, N0, threshold, FIB_N, FIB_N1, acc, depth, mixed>>

Done == frames = <<>>

Next ==
    \/ BaseCase
    \/ Recurse
    \/ Sec1Step
    \/ Sec2Step
    \/ Join
    \/ Swap
    \/ Add
    \/ Even
    \/ Return

Spec == Init /\ [][Next]_vars

\* A run never stops short of the return: some thread can always step.
FairSpec == Spec /\ WF_vars(Next)

(* ---------------- fast_fib_calc as a function of N --------------------- *)
\* The cells one activation works on, before its sections run
Cells(f0, f1) == [A |-> 0, B |-> 0, F0 |-> f0, F1 |-> f1, TEMP |-> 0, F0_Q |-> 0]

RunInstr(c, i) == [c EXCEPT ![i.dst] = Apply(i.op, c[i.a], c[i.b])]

RECURSIVE RunSection(_, _, _)
RunSection(c, sec, k) ==
    IF k > Len(sec) THEN c ELSE RunSection(RunInstr(c, sec[k]), sec, k + 1)

\* lines 47-104 run by one thread, the sections in the order they are written
RECURSIVE FastFibCalc(_)
FastFibCalc(n) ==
    IF n = 0 THEN <<0, 1>>
    ELSE LET r  == FastFibCalc(Half(n))
             c  == RunSection(RunSection(Cells(r[1], r[2]), Section1, 1), Section2, 1)
         IN  IF IsOdd(n)
             THEN LET sw == [c EXCEPT !.A = c.B, !.B = c.A]
                  IN  <<sw.A, RunInstr(sw, AddInstr).B>>
             ELSE <<c.A, c.B>>

(* ------------------------------ oracle --------------------------------- *)
\* F by the linear recurrence F(0)=0, F(1)=1, F(n)=F(n-1)+F(n-2)
RECURSIVE FibUp(_, _, _, _)
FibUp(i, n, a, b) == IF i + 1 = n THEN b ELSE FibUp(i + 1, n, b, a + b)

Fib(n) == IF n = 0 THEN 0 ELSE FibUp(0, n, 0, 1)

RECURSIVE FloorLog2(_)
FloorLog2(n) == IF n <= 1 THEN 0 ELSE 1 + FloorLog2(n \div 2)

RECURSIVE Pow2(_)
Pow2(k) == IF k = 0 THEN 1 ELSE 2 * Pow2(k - 1)

CeilLog2(n) == IF Pow2(FloorLog2(n)) = n THEN FloorLog2(n) ELSE FloorLog2(n) + 1

A_of(d) == Load(Mem, Loc(d, "A"))
B_of(d) == Load(Mem, Loc(d, "B"))

(* ------------------------------ claims --------------------------------- *)
\* C1: for every N in 0..MaxN, whatever the caller's cells held before, the
\* call returns with A = F(N) and B = F(N+1), F being the linear recurrence.
C1_ReturnsFibPair ==
    Done => FIB_N = Fib(N0) /\ FIB_N1 = Fib(N0 + 1)

C1_Witness ==
    Done /\ N0 = 10 /\ FIB_N = 55 /\ FIB_N1 = 89 /\ threshold = ForcedLow

\* C2: whatever the threshold and whatever the interleaving of the two
\* sections, the returned pair is the pair the one-thread, in-order run gives.
C2_ScheduleIndependent ==
    Done => <<FIB_N, FIB_N1>> = FastFibCalc(N0)

C2_Witness ==
    Done /\ mixed /\ threshold = ForcedLow /\ N0 = 20 /\ FIB_N = 6765

\* C3: at every level the parity test, the swap and the addition are reached
\* only once both sections of that level have run to their end.
C3_CorrectionAfterJoin ==
    \A d \in 1..Top :
        frames[d].pc \in {"parity", "add", "clear"} =>
            frames[d].s1 = 3 /\ frames[d].s2 = 3

C3_Witness ==
    /\ Top >= 1
    /\ frames[Top].pc = "add"
    /\ Parallel(frames[Top])
    /\ mixed

\* C8: within a region no section writes F0 or F1, the first section writes
\* only A and TEMP, the second only B and F0_Q, and no cell written by one
\* section is read or written by the other.
C8_NoDataRace ==
    Top >= 1 =>
        /\ acc.w1 \subseteq {Loc(Top, "A"), Loc(Top, "TEMP")}
        /\ acc.w2 \subseteq {Loc(Top, "B"), Loc(Top, "F0_Q")}
        /\ (acc.w1 \cup acc.w2) \cap {Loc(Top, "F0"), Loc(Top, "F1")} = {}
        /\ acc.w1 \cap (acc.r2 \cup acc.w2) = {}
        /\ acc.w2 \cap (acc.r1 \cup acc.w1) = {}

C8_Witness ==
    /\ Top >= 2
    /\ frames[Top].pc = "sections"
    /\ Parallel(frames[Top])
    /\ frames[Top].s1 = 3 /\ frames[Top].s2 = 3
    /\ mixed
    /\ acc.w1 = {Loc(Top, "A"), Loc(Top, "TEMP")}
    /\ acc.w2 = {Loc(Top, "B"), Loc(Top, "F0_Q")}
    /\ acc.r1 \cap acc.r2 = {Loc(Top, "F0"), Loc(Top, "F1")}

\* C9: after the sections A = F0*(2*F1 - F0) and B = F1*F1 + F0*F0; an even
\* level returns them as they are, an odd level returns (B_c, A_c + B_c),
\* the swap coming first and each candidate entering the sum once.
C9_DoublingAndParity ==
    \A d \in 1..Top :
        LET f  == frames[d]
            Ac == f.F0 * (2 * f.F1 - f.F0)
            Bc == f.F1 * f.F1 + f.F0 * f.F0
        IN  /\ f.pc = "parity" => A_of(d) = Ac /\ B_of(d) = Bc
            /\ f.pc = "add" => A_of(d) = Bc /\ B_of(d) = Ac
            /\ f.pc = "clear" =>
                  IF IsOdd(f.N) THEN A_of(d) = Bc /\ B_of(d) = Ac + Bc
                                ELSE A_of(d) = Ac /\ B_of(d) = Bc

C9_Witness ==
    /\ Top >= 1
    /\ frames[Top].pc = "clear"
    /\ frames[Top].N = 5
    /\ frames[Top].F0 = 1 /\ frames[Top].F1 = 2
    /\ A_of(Top) = 5 /\ B_of(Top) = 8

\* The chain of activations: each one below the top waits in its call, and
\* each callee's index is its caller's index halved.
ChainHalves ==
    \A d \in 1..(Top - 1) :
        frames[d].pc = "called" /\ frames[d + 1].N = frames[d].N \div 2

\* C10 (as stated): for N >= 1 the call chain is ceil(log2(N)) + 1 deep.
C10_Original ==
    (Done /\ N0 >= 1) => depth = CeilLog2(N0) + 1

\* C10 (amended): for N >= 1 the call returns, the index is halved at each
\* descent, and the call chain is floor(log2(N)) + 2 deep.
C10_DepthAndTermination ==
    /\ [](ChainHalves /\ (N0 >= 1 => depth <= FloorLog2(N0) + 2))
    /\ []((Done /\ N0 >= 1) => depth = FloorLog2(N0) + 2)
    /\ <>Done

C10_Witness ==
    Done /\ N0 = 8 /\ depth = 5

(* ------------------------- main, print_fib_info ------------------------ *)
\* The digit thresholds of print_fib_info.  F(N) must stay within TLC's
\* integers, so the source's 50 / 100 / 1000000 digits are scaled down to
\* 2 / 4 / 6 digits; their order and FULL_DIGITS = 2 * SHOW_DIGITS are kept.
\* lines 122, 127, 132, 178, 179: the 50 digits shown at either end
SHOW_DIGITS == 2
\* lines 144, 176: up to 100 digits the full number is shown
FULL_DIGITS == 4
\* lines 116, 144: above 1000000 digits the division/modulo path is taken
HUGE_DIGITS == 6

\* Characters are one-character strings, C strings are sequences of them.
DigitChars == <<"0", "1", "2", "3", "4", "5", "6", "7", "8", "9">>
Digits == {DigitChars[k] : k \in 1..10}
DigitVal(c) == (CHOOSE k \in 1..10 : DigitChars[k] = c) - 1

OPT_S == <<"-", "s">>
OPT_H == <<"-", "h">>
NULL == <<"NULL">>

Min(a, b) == IF a <= b THEN a ELSE b

\* One line of standard output: which printf, and its %lu / %zu and %s
Line(tag, n, str) == [tag |-> tag, n |-> n, k |-> 0, s |-> str]

\* line 113: printf("F(%lu) has %zu digits")
DigitsLine(N, NUM_DIGITS) == [tag |-> "digits", n |-> N, k |-> NUM_DIGITS, s |-> <<>>]

\* lines 191-202: print_usage
Usage == <<Line("usage", 0, <<>>)>>

(* strtoul(nptr, &ENDPTR, 10) *)
RECURSIVE SkipSpace(_, _)
SkipSpace(str, i) ==
    IF i <= Len(str) /\ str[i] = " " THEN SkipSpace(str, i + 1) ELSE i

RECURSIVE ScanDigits(_, _, _)
\* the digits from position i on: [val, end] with end one past the last digit
ScanDigits(str, i, acc0) ==
    IF i <= Len(str) /\ str[i] \in Digits
    THEN ScanDigits(str, i + 1, acc0 * 10 + DigitVal(str[i]))
    ELSE [val |-> acc0, end |-> i]

\* line 233.  PARSED is the converted value, ENDPTR the position of the first
\* character not converted (Len + 1 is the terminating '\0'; 1 is nptr itself
\* when no digits were found).  A leading '-' negates the value in unsigned
\* long arithmetic: such a value v >= 2^63 is held here as v - 2^64.
Strtoul(str) ==
    LET i0 == SkipSpace(str, 1)
        signed == i0 <= Len(str) /\ str[i0] \in {"-", "+"}
        i1 == IF signed THEN i0 + 1 ELSE i0
        d  == ScanDigits(str, i1, 0)
    IN  IF d.end = i1
        THEN [PARSED |-> 0, ENDPTR |-> 1]
        ELSE [PARSED |-> IF signed /\ str[i0] = "-" THEN 0 - d.val ELSE d.val,
              ENDPTR |-> d.end]

\* An argument that passes for a number although text follows the digits
ArgValid_ignoreEnd(str, p) == p.PARSED # 0

\* line 234: *ENDPTR == '\0' && PARSED > 0, PARSED being unsigned
ArgValid(str, p) == p.ENDPTR = Len(str) + 1 /\ p.PARSED # 0

(* print_fib_info *)
RECURSIVE BitLen(_)
BitLen(x) == IF x = 0 THEN 0 ELSE 1 + BitLen(x \div 2)

\* line 112: mpz_sizeinbase(A, 10).  GMP derives it from the bit length as
\* floor(bits * log10(2)) + 1, which is the digit count or one more.
SizeInBase10(x) == IF x = 0 THEN 1 ELSE (BitLen(x) * 30103) \div 100000 + 1

RECURSIVE ToDec(_)
\* lines 124, 129, 147: mpz_get_str(NULL, 10, x), the decimal digits of x
ToDec(x) ==
    IF x < 10 THEN <<DigitChars[x + 1]>>
    ELSE Append(ToDec(x \div 10), DigitChars[(x % 10) + 1])

RECURSIVE Pow10(_)
\* lines 122, 127: mpz_ui_pow_ui(D, 10, k)
Pow10(k) == IF k = 0 THEN 1 ELSE 10 * Pow10(k - 1)

RECURSIVE PadLeft(_, _)
\* line 132: printf("%50s"), blanks in front up to the width
PadLeft(str, w) == IF Len(str) >= w THEN str ELSE PadLeft(<<" ">> \o str, w)

\* line 178: printf("%.50s"), at most the first k characters
Take(str, k) == SubSeq(str, 1, Min(k, Len(str)))

\* line 179: the string from FIB_STR + k on
Drop(str, k) == SubSeq(str, k + 1, Len(str))

\* lines 116-139: first digits by division, last digits by modulo
DivModDisplay(A, NUM_DIGITS) ==
    LET FIRST_DIGITS == ToDec(A \div Pow10(NUM_DIGITS - SHOW_DIGITS))
        LAST_DIGITS  == ToDec(A % Pow10(SHOW_DIGITS))
    IN  << Line("first~", 0, FIRST_DIGITS),
           Line("last", 0, PadLeft(LAST_DIGITS, SHOW_DIGITS)) >>

\* lines 150-171: the file is written when it can be opened
SaveLines(N, FIB_STR, SAVE, opens) ==
    IF SAVE # 0 /\ FIB_STR # NULL
    THEN IF opens
         THEN [out |-> <<Line("writing", N, <<>>), Line("saved", N, <<>>)>>,
               file |-> <<Line("file", N, FIB_STR)>>, fopen |-> "ok"]
         ELSE [out |-> <<Line("writing", N, <<>>), Line("failed", 0, <<>>),
                         Line("couldnt", N, <<>>)>>,
               file |-> <<>>, fopen |-> "failed"]
    ELSE [out |-> <<>>, file |-> <<>>, fopen |-> "none"]

\* lines 173-186: the digits shown from the decimal string
StrDisplay(FIB_STR, NUM_DIGITS) ==
    IF FIB_STR # NULL
    THEN IF NUM_DIGITS > FULL_DIGITS
         THEN << Line("first", 0, Take(FIB_STR, SHOW_DIGITS)),
                 Line("last", 0, Drop(FIB_STR, NUM_DIGITS - SHOW_DIGITS)) >>
         ELSE << Line("full", 0, FIB_STR) >>
    ELSE <<>>

\* Giving up on the display once the file could not be opened
SaveThenDisplay_stopOnFailure(N, FIB_STR, NUM_DIGITS, SAVE, opens) ==
    LET sv == SaveLines(N, FIB_STR, SAVE, opens)
    IN  IF sv.fopen = "failed" THEN sv
        ELSE [sv EXCEPT !.out = @ \o StrDisplay(FIB_STR, NUM_DIGITS)]

\* lines 150-186
SaveThenDisplay(N, FIB_STR, NUM_DIGITS, SAVE, opens) ==
    LET sv == SaveLines(N, FIB_STR, SAVE, opens)
    IN  [sv EXCEPT !.out = @ \o StrDisplay(FIB_STR, NUM_DIGITS)]

\* lines 109-187: what print_fib_info(A, N, SAVE) prints and writes, `opens`
\* telling whether fopen succeeds
PrintFibInfo(A, N, SAVE, opens) ==
    LET NUM_DIGITS == SizeInBase10(A)
        head == <<DigitsLine(N, NUM_DIGITS)>>
    IN  IF NUM_DIGITS > HUGE_DIGITS /\ SAVE = 0
        THEN [out |-> head \o DivModDisplay(A, NUM_DIGITS),
              file |-> <<>>, fopen |-> "none", NUM_DIGITS |-> NUM_DIGITS]
        ELSE LET FIB_STR ==
                     IF SAVE # 0 \/ NUM_DIGITS <= FULL_DIGITS
                                 \/ NUM_DIGITS <= HUGE_DIGITS
                     THEN ToDec(A) ELSE NULL
                 r == SaveThenDisplay(N, FIB_STR, NUM_DIGITS, SAVE, opens)
             IN  [out |-> head \o r.out, file |-> r.file, fopen |-> r.fopen,
                  NUM_DIGITS |-> NUM_DIGITS]

(* main *)
\* The arguments tried: the options, words, zero, a negative numeral, the
\* empty string, and indices whose F(N) falls on every side of the thresholds
Tokens ==
    { OPT_S, OPT_H, <<"a", "b", "c">>, <<"1", "2", "a", "b", "c">>, <<"0">>,
      <<"-", "3">>, <<>>, <<"7">>, <<"2", "5">>, <<"3", "2">>, <<"3", "5">>,
      <<"4", "0">> }

\* Most arguments on a command line
MaxArgs == 3

ArgLists == UNION {[1..k -> Tokens] : k \in 0..MaxArgs}

InitMain ==
    /\ cli \in {MainEntry(a, "args") : a \in ArgLists}
    /\ N0 = 0
    /\ threshold = OMP_IF_THRESHOLD
    /\ frames = <<>>
    /\ FIB_N = 0
    /\ FIB_N1 = 0
    /\ acc = NoAcc
    /\ depth = 0
    /\ mixed = FALSE

InLoop == cli.pc = "args" /\ cli.I <= Len(cli.argv)

Arg == cli.argv[cli.I]

\* lines 220-223
ArgSave ==
    /\ InLoop
    /\ Arg = OPT_S
    /\ cli' = [cli EXCEPT !.SAVE_TO_FILE = 1, !.I = @ + 1]
    /\ UNCHANGED calcVars

\* lines 224-229
ArgHelp ==
    /\ InLoop
    /\ Arg # OPT_S
    /\ Arg = OPT_H
    /\ cli' = [cli EXCEPT !.out = @ \o Usage, !.pc = "exit"]
    /\ UNCHANGED calcVars

\* lines 230-237
ArgNumber ==
    /\ InLoop
    /\ Arg \notin {OPT_S, OPT_H}
    /\ ArgValid(Arg, Strtoul(Arg))
    /\ cli' = [cli EXCEPT !.TARGET = Strtoul(Arg).PARSED, !.I = @ + 1]
    /\ UNCHANGED calcVars

\* lines 238-245
ArgInvalid ==
    /\ InLoop
    /\ Arg \notin {OPT_S, OPT_H}
    /\ ~ArgValid(Arg, Strtoul(Arg))
    /\ cli' = [cli EXCEPT !.out = @ \o <<Line("error", 0, Arg)>> \o Usage,
                          !.RETURN_FLAG = 1,
                          !.pc = "exit"]
    /\ UNCHANGED calcVars

\* lines 249-253
Announce ==
    <<Line("computing", cli.TARGET, <<>>)>> \o
    (IF cli.SAVE_TO_FILE # 0 THEN <<Line("willsave", 0, <<>>)>> ELSE <<>>)

\* F(TARGET) and F(TARGET + 1) are within the integers of the model
Computable(t) == t >= 0 /\ t <= MaxN

\* lines 249-267: the loop is over, fast_fib_calc(TARGET, FIB_N, FIB_N1)
Compute ==
    /\ cli.pc = "args"
    /\ cli.I > Len(cli.argv)
    /\ Computable(cli.TARGET)
    /\ FIB_N' = FastFibCalc(cli.TARGET)[1]
    /\ FIB_N1' = FastFibCalc(cli.TARGET)[2]
    /\ cli' = [cli EXCEPT !.out = @ \o Announce, !.calcCalls = @ + 1,
                          !.pc = "print"]
    /\ UNCHANGED <<N0, threshold, frames, acc, depth, mixed>>

\* lines 249-260 with a TARGET whose F(TARGET) the model cannot hold (the
\* default 20000000, or the wrapped value of a negative numeral): the call
\* is made and the run is not followed further
ComputeBeyond ==
    /\ cli.pc = "args"
    /\ cli.I > Len(cli.argv)
    /\ ~Computable(cli.TARGET)
    /\ cli' = [cli EXCEPT !.out = @ \o Announce, !.calcCalls = @ + 1,
                          !.pc = "beyond"]
    /\ UNCHANGED calcVars

\* line 274: print_fib_info(FIB_N, TARGET, SAVE_TO_FILE)
ShowResult ==
    /\ cli.pc = "print"
    /\ \E opens \in BOOLEAN :
         LET r == PrintFibInfo(FIB_N, cli.TARGET, cli.SAVE_TO_FILE, opens)
         IN  cli' = [cli EXCEPT !.out = @ \o r.out, !.file = r.file,
                                !.fopen = r.fopen, !.printCalls = @ + 1,
                                !.pc = "summary"]
    /\ UNCHANGED calcVars

\* lines 278-286: the performance summary
Summary ==
    /\ cli.pc = "summary"
    /\ cli' = [cli EXCEPT !.out = @ \o <<Line("perf", 0, <<>>)>>, !.pc = "exit"]
    /\ UNCHANGED calcVars

\* lines 289-295: EXIT, return RETURN_FLAG
Exit ==
    /\ cli.pc = "exit"
    /\ cli' = [cli EXCEPT !.pc = "done"]
    /\ UNCHANGED calcVars

NextMain ==
    \/ ArgSave
    \/ ArgHelp
    \/ ArgNumber
    \/ ArgInvalid
    \/ Compute
    \/ ComputeBeyond
    \/ ShowResult
    \/ Summary
    \/ Exit

SpecMain == InitMain /\ [][NextMain]_vars

\* The exit status of the process once main has returned
ExitStatus == cli.RETURN_FLAG

(* --------------------------- claims on main ---------------------------- *)
\* The digits of an argument once an optional sign is taken off
Unsigned(tok) ==
    IF Len(tok) >= 1 /\ tok[1] \in {"-", "+"} THEN Tail(tok) ELSE tok

IsNumeral(tok) ==
    Len(Unsigned(tok)) >= 1 /\ \A i \in 1..Len(Unsigned(tok)) : Unsigned(tok)[i] \in Digits

IsZero(tok) ==
    IsNumeral(tok) /\ \A i \in 1..Len(Unsigned(tok)) : Unsigned(tok)[i] = "0"

IsNegative(tok) == IsNumeral(tok) /\ tok[1] = "-"

\* Neither -s nor -h, and not a number or the number zero
NonNumericOrZero(tok) ==
    tok \notin {OPT_S, OPT_H} /\ (~IsNumeral(tok) \/ IsZero(tok))

NonPositive(tok) == IsZero(tok) \/ IsNegative(tok)

NoHelpBefore(i) == \A j \in 1..(i - 1) : cli.argv[j] # OPT_H

Tags == {cli.out[i].tag : i \in 1..Len(cli.out)}

NothingComputed == cli.calcCalls = 0 /\ cli.printCalls = 0 /\ cli.file = <<>>

\* C4: when the scan reaches, before any -h, an argument other than -s and -h
\* that is not a number or is zero, main prints the error and the usage,
\* calls neither fast_fib_calc nor print_fib_info, writes no file, and
\* returns a non-zero status.
C4_InvalidArgumentRejected ==
    \A i \in 1..Len(cli.argv) :
        ( /\ NonNumericOrZero(cli.argv[i])
          /\ NoHelpBefore(i)
          /\ \A j \in 1..(i - 1) : ~NonNumericOrZero(cli.argv[j]) )
        => /\ NothingComputed
           /\ cli.pc \notin {"print", "summary", "beyond"}
           /\ cli.pc = "done" =>
                /\ ExitStatus # 0
                /\ cli.out = <<Line("error", 0, cli.argv[i])>> \o Usage

C4_Witness ==
    /\ cli.pc = "done"
    /\ cli.argv = <<OPT_S, <<"7">>, <<"1", "2", "a", "b", "c">>>>
    /\ cli.SAVE_TO_FILE = 1
    /\ cli.TARGET = 7
    /\ ExitStatus = 1
    /\ NothingComputed

\* C5 (as stated): a non-positive index argument, a negative numeral such as
\* "-3" included, makes main print the usage and return a non-zero status
\* with no computation attempted and no file written.
C5_Original ==
    (\E i \in 1..Len(cli.argv) : NonPositive(cli.argv[i]) /\ NoHelpBefore(i))
    => /\ NothingComputed
       /\ cli.pc = "done" => (ExitStatus # 0 /\ "usage" \in Tags)

\* C6: when saving is asked for and the file cannot be opened, the failure is
\* reported, the result is still shown right after (the full number, or its
\* first and last digits), and the exit status stays 0.
C6_WriteFailureNotFatal ==
    cli.fopen = "failed" =>
        /\ \E k \in 1..Len(cli.out) :
             /\ k >= 3
             /\ cli.out[k - 2].tag = "failed"
             /\ cli.out[k - 1].tag = "couldnt"
             /\ \/ cli.out[k] = Line("full", 0, ToDec(FIB_N))
                \/ /\ k < Len(cli.out)
                   /\ cli.out[k].tag = "first" /\ cli.out[k].s # <<>>
                   /\ cli.out[k + 1].tag = "last" /\ cli.out[k + 1].s # <<>>
        /\ cli.pc \in {"summary", "exit", "done"}
        /\ ExitStatus = 0

C6_Witness ==
    /\ cli.pc = "done"
    /\ cli.fopen = "failed"
    /\ cli.file = <<>>
    /\ cli.TARGET = 40
    /\ ExitStatus = 0
    /\ \E k \in 1..Len(cli.out) : cli.out[k] = Line("first", 0, <<"1", "0">>)
    /\ \E k \in 1..Len(cli.out) : cli.out[k] = Line("last", 0, <<"5", "5">>)

\* C7 (as stated): the digit-count line is always printed; a result of at
\* most FULL_DIGITS digits is shown in full, and a longer one by exactly its
\* first SHOW_DIGITS and its last SHOW_DIGITS digits, on either path.
C7_Original ==
    cli.printCalls = 1 =>
        LET str == ToDec(FIB_N)
            n   == Len(str)
        IN  /\ "digits" \in Tags
            /\ n <= FULL_DIGITS =>
                 \E k \in 1..Len(cli.out) : cli.out[k] = Line("full", 0, str)
            /\ n > FULL_DIGITS =>
                 /\ \E k \in 1..Len(cli.out) :
                      /\ cli.out[k].tag \in {"first", "first~"}
                      /\ cli.out[k].s = SubSeq(str, 1, SHOW_DIGITS)
                 /\ \E k \in 1..Len(cli.out) :
                      /\ cli.out[k].tag = "last"
                      /\ cli.out[k].s = SubSeq(str, n - SHOW_DIGITS + 1, n)

====
